---- MODULE Spec2Model ----
(***************************************************************************)
(* A model of theano/sandbox/cuda/rng_curand.py: the CURAND sampling Ops   *)
(* (CURAND_Base, CURAND_Uniform, CURAND_Normal) and the C code they        *)
(* generate, the CURAND_RandomStreams factory, and the local_destructive   *)
(* graph rewrite.                                                          *)
(*                                                                         *)
(* Three specifications share the module:                                  *)
(*   SpecExec    repeated executions of one sampling node (c_code)         *)
(*   SpecStream  calls on CURAND_RandomStreams objects                     *)
(*   SpecRewrite the local_destructive pass over a graph                   *)
(***************************************************************************)
EXTENDS Integers, Sequences, FiniteSets, TLC

VARIABLES
  \* ---- execution of one sampling node ----
  op,            \* the Op of the node being executed
  contexts,      \* native curand generators ever created, in creation order
  handles,       \* CObjects ever created to wrap a generator
  i_generator,   \* value of the generator input (0 = Py_False, else a handle)
  o_generator,   \* value in the generator output storage (0 = empty)
  o_sample,      \* value in the sample output storage
  wired,         \* the executor feeds the generator output back as next input
  rewritten,     \* the optimizer has visited the node
  nexec,         \* number of executions so far
  samples,       \* data of the samples returned so far in this session
  session_ctx,   \* number of contexts that existed when this session began
  session_clean, \* no execution of this session has failed
  last,          \* what the latest execution saw and did
  \* ---- CURAND_RandomStreams objects ----
  streams,       \* the stream objects: the first constructed, the others restored
  lists,         \* the Python list objects; a stream's state_updates names one
  built,         \* the Apply nodes built by new_auto_update, in order
  nvars,         \* number of graph Variables created so far
  seedlog,       \* per stream, the values next_seed() has returned, in order
  base,          \* per stream, its _cur_seed when the object came to exist
  snap,          \* the list the client got from its latest updates() call (0: none)
  snap_orig,     \* that list's content when updates() returned it
  snap_touched,  \* the client has changed that list since
  slast,         \* the latest call on a stream
  \* ---- the local_destructive pass over a graph ----
  graph,         \* the Apply nodes of the graph, inputs before outputs
  orig,          \* the graph as it was handed to the optimizer
  pos,           \* the node the pass visits next
  passes,        \* number of passes started
  pass_start,    \* the graph when the current pass started
  cmp            \* the latest comparison of two Ops of the graph

execVars == <<op, contexts, handles, i_generator, o_generator, o_sample,
              wired, rewritten, nexec, samples, session_ctx, session_clean,
              last>>

streamVars == <<streams, lists, built, nvars, seedlog, base, snap, snap_orig,
                snap_touched, slast>>

graphVars == <<graph, orig, pos, passes, pass_start, cmp>>

vars == <<execVars, streamVars, graphVars>>

(***************************************************************************)
(* Bounds of the model.                                                    *)
(***************************************************************************)
MaxExec == 2
MaxSeed == 1
MaxDraws == 2
MaxNodes == 2
MaxPasses == 2

\* The ranks and the dimensions that the sizes tried are made of.
Ranks == {1, 2}
Dims == {1, 2}

Seeds == 0..MaxSeed
Classes == {"CURAND_Uniform", "CURAND_Normal"}

RECURSIVE Prod(_)
Prod(s) == IF s = <<>> THEN 1 ELSE Head(s) * Prod(Tail(s))

(***************************************************************************)
(* Types and Op construction.                                              *)
(***************************************************************************)
\* CudaNdarrayType(broadcastable): always of dtype float32.
CudaNdarrayType(broadcastable) ==
  [dtype |-> "float32", broadcastable |-> broadcastable]

Falses(n) == [i \in 1..n |-> FALSE]

\* CURAND_Base.__init__ for the class cls; "AssertionError" when the assert fails.
CURAND_Base(cls, output_type, seed, destructive) ==
  IF output_type.dtype # "float32"
  THEN "AssertionError"
  ELSE [cls |-> cls, destructive |-> destructive, seed |-> seed,
        output_type |-> output_type]

\* A variant of as_destructive that copies the Op with its flag as it is.
as_destructive_SameFlag(self) ==
  CURAND_Base(self.cls, self.output_type, self.seed, self.destructive)

\* CURAND_Base.as_destructive
as_destructive(self) ==
  CURAND_Base(self.cls, self.output_type, self.seed, TRUE)

\* CURAND_Base._config: the attributes that define the Op.
_config(self) == <<self.destructive, self.output_type, self.seed>>

\* A variant of __eq__ that leaves the destructive flag out of the comparison.
__eq___NoFlag(self, other) ==
  /\ self.cls = other.cls
  /\ self.output_type = other.output_type
  /\ self.seed = other.seed

\* CURAND_Base.__eq__; type(self) is the class of the Op.
__eq__(self, other) ==
  self.cls = other.cls /\ _config(self) = _config(other)

\* Python's hash of a bool, an int, a str naming a class, a type of a given
\* broadcastable pattern, and of a tuple of hashes: functions of the value,
\* many values to one hash.
RECURSIVE hash_tuple(_)
hash_tuple(hs) ==
  IF hs = <<>> THEN 7
  ELSE (31 * hash_tuple(SubSeq(hs, 1, Len(hs) - 1)) + hs[Len(hs)]) % 256

hash_type(t) ==
  hash_tuple(<<IF t.dtype = "float32" THEN 11 ELSE 12>>
               \o [i \in 1..Len(t.broadcastable) |->
                     IF t.broadcastable[i] THEN 1 ELSE 0])

hash_class(cls) ==
  IF cls = "CURAND_Uniform" THEN 101
  ELSE IF cls = "CURAND_Normal" THEN 102 ELSE 103

\* CURAND_Base.__hash__
__hash__(self) ==
  hash_tuple(<<hash_class(self.cls),
               hash_tuple(<<IF self.destructive THEN 1 ELSE 0,
                            hash_type(self.output_type), self.seed>>)>>)

\* CURAND_Base.make_node: the Apply node of self on (generator, size).
make_node(self, inputs) ==
  [op |-> self, inputs |-> inputs,
   outputs |-> <<"generic", self.output_type>>]

\* isinstance(op, CURAND_Base)
IsCurandOp(o) == o.cls \in Classes

\* A variant of local_destructive that does not look at the class of the Op.
local_destructive_AnyOp(node) ==
  IF ~node.op.destructive
  THEN <<make_node(as_destructive(node.op), node.inputs)>>
  ELSE <<>>

\* A variant of local_destructive that does not look at the destructive flag.
local_destructive_IgnoreFlag(node) ==
  IF IsCurandOp(node.op)
  THEN <<make_node(as_destructive(node.op), node.inputs)>>
  ELSE <<>>

\* local_destructive: <<>> stands for the rule declining (return False),
\* <<n>> for the node whose outputs replace the original's.
local_destructive(node) ==
  IF IsCurandOp(node.op) /\ ~node.op.destructive
  THEN <<make_node(as_destructive(node.op), node.inputs)>>
  ELSE <<>>

(***************************************************************************)
(* The native library and the CObject wrapping a generator.                *)
(* A context is [seed, drawn, destroyed]: seed -1 until seeded, drawn the  *)
(* number of values generated so far, destroyed the number of              *)
(* curandDestroyGenerator calls made on it.  A handle is a CObject         *)
(* [gen, refcnt, freed].  The heap is [contexts, handles].                 *)
(***************************************************************************)
Call(f, ctx, arg) == [f |-> f, ctx |-> ctx, arg |-> arg]

\* free_generator: the CObject's destructor.
free_generator(heap, h) ==
  [heap EXCEPT !.contexts[heap.handles[h].gen].destroyed = @ + 1,
               !.handles[h].freed = TRUE,
               !.handles[h].refcnt = 0]

\* Py_INCREF / Py_XINCREF.  Touching a freed object is undefined; the write
\* to freed memory is not observed.
INCREF(heap, h) ==
  IF h = 0 \/ heap.handles[h].freed THEN heap
  ELSE [heap EXCEPT !.handles[h].refcnt = @ + 1]

\* Py_XDECREF.  On a freed object the behaviour is undefined: either nothing
\* observable happens or the destructor runs again (ub chooses).
DECREF(heap, h, ub) ==
  IF h = 0 THEN heap
  ELSE IF heap.handles[h].freed
       THEN (IF ub THEN free_generator(heap, h) ELSE heap)
  ELSE IF heap.handles[h].refcnt <= 1 THEN free_generator(heap, h)
  ELSE [heap EXCEPT !.handles[h].refcnt = @ - 1]

\* PyCObject_Check(i_generator)
PyCObject_Check(v) == v # 0

(***************************************************************************)
(* c_code, in the three parts of the generated C.                          *)
(***************************************************************************)
NullSample == [kind |-> "null", dims |-> <<>>,
               data |-> [seed |-> -1, from |-> 0, n |-> 0]]

NewDims(odims) == [kind |-> "cuda", dims |-> odims,
                   data |-> [seed |-> -1, from |-> 0, n |-> 0]]

\* A variant of must_alloc_sample that does not compare the dimensions.
must_alloc_sample_RankOnly(self, smp, odims) ==
  LET ndim == Len(self.output_type.broadcastable)
  IN \/ smp.kind = "null"
     \/ smp.kind # "cuda"
     \/ Len(smp.dims) # ndim

\* must_alloc_sample as computed by lines 149-151 and 173-174.
must_alloc_sample(self, smp, odims) ==
  LET ndim == Len(self.output_type.broadcastable)
  IN \/ smp.kind = "null"
     \/ smp.kind # "cuda"
     \/ Len(smp.dims) # ndim
     \/ \E i \in 1..ndim : smp.dims[i] # odims[i]

\* A variant of c_code_sample that gets the sample buffer before it checks
\* the size.
c_code_sample_AllocFirst(self, smp, size, nat) ==
  LET ndim == Len(self.output_type.broadcastable)
      n == Prod(size.data)
      call == <<Call("CudaNdarray_NewDims", 0, n)>>
      bad(msg) == [err |-> msg, o_sample |-> smp, n_elements |-> 0,
                   calls |-> call]
  IN IF size.nd # 1 THEN bad("ValueError: size must be vector")
     ELSE IF Len(size.data) # ndim THEN bad("ValueError: size must have length")
     ELSE IF size.dtype # "int32" THEN bad("ValueError: size must be int32")
     ELSE IF nat.newdims
     THEN [err |-> "ok", o_sample |-> NewDims(size.data), n_elements |-> n,
           calls |-> call]
     ELSE [err |-> "MemoryError", o_sample |-> NullSample, n_elements |-> n,
           calls |-> call]

\* Lines 147-184: the checks of size and the sample buffer.
\* nat.newdims: whether CudaNdarray_NewDims succeeds.
c_code_sample(self, smp, size, nat) ==
  LET ndim == Len(self.output_type.broadcastable)
      none == [err |-> "ok", o_sample |-> smp, n_elements |-> 0,
               calls |-> <<>>]
  IN IF size.nd # 1
     THEN [none EXCEPT !.err = "ValueError: size must be vector"]
     ELSE IF Len(size.data) # ndim
     THEN [none EXCEPT !.err = "ValueError: size must have length"]
     ELSE IF size.dtype # "int32"
     THEN [none EXCEPT !.err = "ValueError: size must be int32"]
     ELSE IF must_alloc_sample(self, smp, size.data)
     THEN IF nat.newdims
          THEN [err |-> "ok", o_sample |-> NewDims(size.data),
                n_elements |-> Prod(size.data),
                calls |-> <<Call("CudaNdarray_NewDims", 0, Prod(size.data))>>]
          ELSE [err |-> "MemoryError", o_sample |-> NullSample,
                n_elements |-> Prod(size.data),
                calls |-> <<Call("CudaNdarray_NewDims", 0, Prod(size.data))>>]
     ELSE [none EXCEPT !.n_elements = Prod(size.data)]

\* A variant of SeedArg that seeds every generator with the same default.
SeedArg_Default(self) == 0

\* The seed handed to curandSetPseudoRandomGeneratorSeed (line 197).
SeedArg(self) == self.seed

\* Lines 187-203: allocate a new generator for o_generator.
\* nat.create, nat.seed: whether curandCreateGenerator and
\* curandSetPseudoRandomGeneratorSeed succeed.  A failure leaves the C
\* variable o_generator as it was, after its reference has been dropped.
AllocateGenerator(self, heap, i_gen, o_gen, nat, ub) ==
  LET h1 == DECREF(heap, o_gen, ub)
      c == Len(h1.contexts) + 1
      made == [h1 EXCEPT !.contexts =
                 Append(@, [seed |-> -1, drawn |-> 0, destroyed |-> 0])]
      seeded == [made EXCEPT !.contexts[c].seed = SeedArg(self)]
      h == Len(h1.handles) + 1
      wrapped == [seeded EXCEPT !.handles =
                    Append(@, [gen |-> c, refcnt |-> 1, freed |-> FALSE])]
  IN IF ~nat.create
     THEN [err |-> "RuntimeError: Failed to initialize curand generator",
           heap |-> h1, o_generator |-> o_gen,
           calls |-> <<Call("curandCreateGenerator", 0, 0)>>]
     ELSE IF ~nat.seed
     THEN [err |-> "RuntimeError: Failed to set curand generator seed",
           heap |-> made, o_generator |-> o_gen,
           calls |-> <<Call("curandCreateGenerator", c, 0),
                       Call("curandSetPseudoRandomGeneratorSeed", c,
                            SeedArg(self))>>]
     ELSE [err |-> "ok", heap |-> wrapped, o_generator |-> h,
           calls |-> <<Call("curandCreateGenerator", c, 0),
                       Call("curandSetPseudoRandomGeneratorSeed", c,
                            SeedArg(self))>>]

\* A variant of ReuseGenerator that allocates another generator instead.
ReuseGenerator_Realloc(self, heap, i_gen, o_gen, nat, ub) ==
  AllocateGenerator(self, heap, i_gen, o_gen, nat, ub)

\* Lines 207-210: use i_generator for o_generator.
ReuseGenerator(self, heap, i_gen, o_gen, nat, ub) ==
  [err |-> "ok", heap |-> INCREF(DECREF(heap, o_gen, ub), i_gen),
   o_generator |-> i_gen, calls |-> <<>>]

\* A variant of CopyGenerator that shares the input's generator silently.
CopyGenerator_Share(self, heap, i_gen, o_gen, nat, ub) ==
  [err |-> "ok", heap |-> INCREF(DECREF(heap, o_gen, ub), i_gen),
   o_generator |-> i_gen, calls |-> <<>>]

\* Lines 214-216: copy i_generator for o_generator (not implemented).
CopyGenerator(self, heap, i_gen, o_gen, nat, ub) ==
  [err |-> "NotImplementedError: non-destructive CURAND generation",
   heap |-> heap, o_generator |-> o_gen, calls |-> <<>>]

\* Lines 185-217: the generator for o_generator.
c_code_generator(self, heap, i_gen, o_gen, nat, ub) ==
  IF ~PyCObject_Check(i_gen)
  THEN AllocateGenerator(self, heap, i_gen, o_gen, nat, ub)
  ELSE IF self.destructive
  THEN ReuseGenerator(self, heap, i_gen, o_gen, nat, ub)
  ELSE CopyGenerator(self, heap, i_gen, o_gen, nat, ub)

\* _curand_call_str: the native draw of each class.
curand_call_str(self) ==
  IF self.cls = "CURAND_Normal" THEN "curandGenerateNormal"
  ELSE "curandGenerateUniform"

\* Lines 218-228: the draw.  nat.draw: whether the native call succeeds.
c_code_draw(self, heap, o_gen, smp, n_elements, nat) ==
  LET c == heap.handles[o_gen].gen
      ctx == heap.contexts[c]
      call == <<Call(curand_call_str(self), c, n_elements)>>
  IN IF ~nat.draw
     THEN [err |-> "RuntimeError: curand error generating random normals",
           heap |-> heap, o_sample |-> smp, calls |-> call]
     ELSE [err |-> "ok",
           heap |-> [heap EXCEPT !.contexts[c].drawn = @ + n_elements],
           o_sample |-> [smp EXCEPT !.data = [seed |-> ctx.seed,
                                              from |-> ctx.drawn,
                                              n |-> n_elements]],
           calls |-> call]

\* The whole of c_code: the values of the C variables when it ends.
c_code(self, heap, i_gen, o_gen, smp, size, nat, ub) ==
  LET s == c_code_sample(self, smp, size, nat)
  IN IF s.err # "ok"
     THEN [err |-> s.err, heap |-> heap, o_generator |-> o_gen,
           o_sample |-> s.o_sample, calls |-> s.calls]
     ELSE LET g == c_code_generator(self, heap, i_gen, o_gen, nat, ub)
          IN IF g.err # "ok"
             THEN [err |-> g.err, heap |-> g.heap,
                   o_generator |-> g.o_generator,
                   o_sample |-> s.o_sample, calls |-> s.calls \o g.calls]
             ELSE LET d == c_code_draw(self, g.heap, g.o_generator,
                                       s.o_sample, s.n_elements, nat)
                  IN [err |-> d.err, heap |-> d.heap,
                      o_generator |-> g.o_generator,
                      o_sample |-> d.o_sample,
                      calls |-> s.calls \o g.calls \o d.calls]

(***************************************************************************)
(* The variables of each specification while another one runs.             *)
(***************************************************************************)
NoStream == [start_seed |-> 0, cur_seed |-> 0, has_lost_states |-> FALSE,
             state_updates |-> 0]

NoCall == [call |-> "none", stream |-> 0, err |-> "none", rval |-> 0,
           dtype |-> "none", before |-> NoStream, before_updates |-> <<>>]

StreamIdle ==
  /\ streams = <<>>
  /\ lists = <<>>
  /\ built = <<>>
  /\ nvars = 0
  /\ seedlog = <<>>
  /\ base = <<>>
  /\ snap = 0
  /\ snap_orig = <<>>
  /\ snap_touched = FALSE
  /\ slast = NoCall

NoCmp == [done |-> FALSE, self |-> 0, other |-> 0, eq |-> FALSE,
          hash_self |-> 0, hash_other |-> 0]

GraphIdle ==
  /\ cmp = NoCmp
  /\ graph = <<>>
  /\ orig = <<>>
  /\ pos = 0
  /\ passes = 0
  /\ pass_start = <<>>

(***************************************************************************)
(* SpecExec: one sampling node executed again and again.                   *)
(***************************************************************************)
\* The size arguments tried: every int32 vector of Dims of a rank in Ranks, a
\* matrix, and int64 vectors of each length.
Sizes ==
  [nd : {1}, data : UNION {[1..k -> Dims] : k \in Ranks}, dtype : {"int32"}]
    \cup [nd : {2}, data : {<<1>>}, dtype : {"int32"}]
    \cup [nd : {1}, data : {[i \in 1..k |-> 1] : k \in Ranks},
          dtype : {"int64"}]

\* The native calls' outcomes: at most one of them fails in an execution.
Natives ==
  {[newdims |-> f # "newdims", create |-> f # "create", seed |-> f # "seed",
    draw |-> f # "draw"] : f \in {"none", "newdims", "create", "seed", "draw"}}

NoFault == [newdims |-> TRUE, create |-> TRUE, seed |-> TRUE, draw |-> TRUE]

\* The size passes the three checks of lines 153-168.
ShapeOK(self, size) ==
  /\ size.nd = 1
  /\ Len(size.data) = Len(self.output_type.broadcastable)
  /\ size.dtype = "int32"

\* Whether some storage refers to a freed CObject, so that the undefined
\* behaviour of touching it has more than one outcome.
Dangling ==
  \E h \in {i_generator, o_generator} \ {0} : handles[h].freed

UBChoices == IF Dangling THEN BOOLEAN ELSE {FALSE}

NoSize == [nd |-> 0, data |-> <<>>, dtype |-> "none"]

NoExec ==
  [ran |-> FALSE, size |-> NoSize, op |-> [cls |-> "none", destructive |-> FALSE, seed |-> 0,
                          output_type |-> CudaNdarrayType(<<>>)],
   i_before |-> 0, o_before |-> 0, s_before |-> NullSample,
   ctx_before |-> <<>>, hnd_before |-> <<>>,
   shape_ok |-> FALSE, nominal |-> FALSE,
   err |-> "none", calls |-> <<>>, fed |-> FALSE]

Live(ctxs) == {c \in DOMAIN ctxs : ctxs[c].destroyed = 0}

InitExec ==
  /\ op \in {CURAND_Base(cls, CudaNdarrayType(Falses(nd)), sd, d) :
               cls \in Classes, nd \in Ranks, sd \in Seeds, d \in BOOLEAN}
  /\ contexts = <<>>
  /\ handles = <<>>
  /\ i_generator = 0
  /\ o_generator = 0
  /\ o_sample = NullSample
  /\ wired \in BOOLEAN
  /\ rewritten = FALSE
  /\ nexec = 0
  /\ samples = <<>>
  /\ session_ctx = 0
  /\ session_clean = TRUE
  /\ last = NoExec
  /\ StreamIdle
  /\ GraphIdle

\* One execution of the node by the linker: the C variables are extracted
\* from the storage (each holding its own reference), c_code runs, on success
\* the outputs are stored, the C variables' references are dropped, and a
\* wired executor then feeds the generator output back as the next input.
Execute(size, nat, ub) ==
  /\ nexec < MaxExec
  /\ LET h0 == [contexts |-> contexts, handles |-> handles]
         h1 == INCREF(INCREF(h0, i_generator), o_generator)
         r == c_code(op, h1, i_generator, o_generator, o_sample, size, nat, ub)
         ok == r.err = "ok"
         h2 == IF ok THEN DECREF(INCREF(r.heap, r.o_generator), o_generator, ub)
               ELSE r.heap
         h3 == DECREF(DECREF(h2, r.o_generator, ub), i_generator, ub)
         out == IF ok THEN r.o_generator ELSE o_generator
         fed == ok /\ wired
         h4 == IF fed THEN DECREF(INCREF(h3, out), i_generator, ub) ELSE h3
     IN /\ contexts' = h4.contexts
        /\ handles' = h4.handles
        /\ o_generator' = out
        /\ o_sample' = IF ok THEN r.o_sample ELSE o_sample
        /\ i_generator' = IF fed THEN out ELSE i_generator
        /\ samples' = IF ok THEN Append(samples, r.o_sample.data) ELSE samples
        /\ last' = [ran |-> TRUE, size |-> size, op |-> op,
                    i_before |-> i_generator, o_before |-> o_generator,
                    s_before |-> o_sample, ctx_before |-> contexts,
                    hnd_before |-> handles,
                    shape_ok |-> ShapeOK(op, size),
                    nominal |-> ShapeOK(op, size) /\ nat = NoFault,
                    err |-> r.err, calls |-> r.calls, fed |-> fed]
        /\ session_clean' = (session_clean /\ ok)
  /\ nexec' = nexec + 1
  /\ UNCHANGED <<op, wired, rewritten, session_ctx>>
  /\ UNCHANGED <<streamVars, graphVars>>

\* The optimizer visits the node and applies local_destructive to it: the
\* node is replaced when the rule returns outputs, kept when it declines.
Rewrite ==
  /\ ~rewritten
  /\ LET new == local_destructive(make_node(op, <<"generator", "size">>))
     IN op' = IF new = <<>> THEN op ELSE new[1].op
  /\ rewritten' = TRUE
  /\ last' = NoExec
  /\ UNCHANGED <<contexts, handles, i_generator, o_generator, o_sample,
                 wired, nexec, samples, session_ctx, session_clean>>
  /\ UNCHANGED <<streamVars, graphVars>>

\* The executor empties the output storage between two calls.
ClearStorage(ub) ==
  /\ o_generator # 0 \/ o_sample # NullSample
  /\ LET h == DECREF([contexts |-> contexts, handles |-> handles],
                     o_generator, ub)
     IN contexts' = h.contexts /\ handles' = h.handles
  /\ o_generator' = 0
  /\ o_sample' = NullSample
  /\ last' = NoExec
  /\ UNCHANGED <<op, i_generator, wired, rewritten, nexec, samples,
                 session_ctx, session_clean>>
  /\ UNCHANGED <<streamVars, graphVars>>

\* The session ends: every reference to the handle is dropped (the shared
\* variable's value and the output storage), and another session of the same
\* node starts from the placeholder, with or without the update wiring.
NewSession(w, ub) ==
  /\ last.ran
  /\ LET h == DECREF(DECREF([contexts |-> contexts, handles |-> handles],
                            i_generator, ub), o_generator, ub)
     IN contexts' = h.contexts /\ handles' = h.handles
  /\ i_generator' = 0
  /\ o_generator' = 0
  /\ o_sample' = NullSample
  /\ wired' = w
  /\ samples' = <<>>
  /\ session_ctx' = Len(contexts)
  /\ session_clean' = TRUE
  /\ last' = NoExec
  /\ UNCHANGED <<op, rewritten, nexec>>
  /\ UNCHANGED <<streamVars, graphVars>>

\* The values another computation may have left in the sample storage: an
\* object that is not a CudaNdarray, and a CudaNdarray of another rank.
ForeignSamples(self) ==
  {[kind |-> "other", dims |-> <<>>, data |-> NullSample.data]}
    \cup {NewDims([i \in 1..k |-> 1]) :
            k \in Ranks \ {Len(self.output_type.broadcastable)}}

\* Before the first execution the sample storage is handed over holding such
\* a value.
PresetStorage(v) ==
  /\ nexec = 0
  /\ o_sample = NullSample /\ o_generator = 0
  /\ o_sample' = v
  /\ UNCHANGED <<op, contexts, handles, i_generator, o_generator, wired,
                 rewritten, nexec, samples, session_ctx, session_clean, last>>
  /\ UNCHANGED <<streamVars, graphVars>>

NextExec ==
  \/ \E size \in Sizes, nat \in Natives, ub \in UBChoices :
       Execute(size, nat, ub)
  \/ Rewrite
  \/ \E v \in ForeignSamples(op) : PresetStorage(v)
  \/ \E ub \in UBChoices : ClearStorage(ub)
  \/ \E w \in BOOLEAN, ub \in UBChoices : NewSession(w, ub)

SpecExec == InitExec /\ [][NextExec]_vars

(***************************************************************************)
(* Properties of executions (checked under SpecExec).                      *)
(***************************************************************************)
NativeCalls(f) == {k \in DOMAIN last.calls : last.calls[k].f = f}

Draws == NativeCalls("curandGenerateUniform") \cup NativeCalls("curandGenerateNormal")

RECURSIVE ElementsBefore(_, _)
ElementsBefore(smps, k) ==
  IF k <= 1 THEN 0 ELSE smps[k - 1].n + ElementsBefore(smps, k - 1)

\* C1: once every reference to the handle chain has been dropped (the input
\* value and the output storage are both empty), every native context that
\* was created has been destroyed exactly once: none is leaked, none is
\* destroyed twice.
C1_EveryContextDestroyedOnce ==
  (i_generator = 0 /\ o_generator = 0)
    => \A c \in DOMAIN contexts : contexts[c].destroyed = 1

\* C2: a destructive execution on an allocated input handle creates and
\* destroys no native context, and when it completes the output handle is the
\* input handle, wrapping the same context, which is still alive.
C2_DestructiveReuseKeepsContext ==
  (last.ran /\ last.op.destructive /\ last.i_before # 0)
    => /\ Len(contexts) = Len(last.ctx_before)
       /\ Live(contexts) = Live(last.ctx_before)
       /\ NativeCalls("curandCreateGenerator") = {}
       /\ last.err = "ok"
            => /\ o_generator = last.i_before
               /\ handles[o_generator].gen = last.hnd_before[last.i_before].gen
               /\ ~handles[o_generator].freed
               /\ handles[o_generator].gen \in Live(contexts)

C2_Witness ==
  /\ last.ran /\ last.op.destructive /\ last.i_before # 0 /\ last.err = "ok"
  /\ Live(contexts) # {}

\* C3: an execution with a valid shape on the unallocated placeholder, with
\* either value of the destructive flag, completes when no native call
\* fails; it never creates more than one context and seeds only with the
\* seed of the Op; when it completes it has created exactly one context,
\* seeded with the Op's seed, and the output handle is a new handle wrapping
\* that context.
C3_FirstUseAllocatesFromOpSeed ==
  (last.ran /\ last.i_before = 0 /\ last.shape_ok)
    => /\ last.nominal => last.err = "ok"
       /\ Len(contexts) <= Len(last.ctx_before) + 1
       /\ \A k \in NativeCalls("curandSetPseudoRandomGeneratorSeed") :
            last.calls[k].arg = last.op.seed
       /\ last.err = "ok"
            => /\ Len(contexts) = Len(last.ctx_before) + 1
               /\ Cardinality(NativeCalls("curandCreateGenerator")) = 1
               /\ Cardinality(NativeCalls("curandSetPseudoRandomGeneratorSeed")) = 1
               /\ contexts[Len(contexts)].seed = last.op.seed
               /\ o_generator = Len(handles)
               /\ Len(handles) = Len(last.hnd_before) + 1
               /\ handles[o_generator].gen = Len(contexts)
               /\ ~handles[o_generator].freed

C3_Witness ==
  /\ last.ran /\ last.i_before = 0 /\ last.shape_ok /\ last.err = "ok"
  /\ last.op.destructive
  /\ last.op.seed # 0

\* C4: a non-destructive execution on an allocated input handle fails, with
\* the NotImplementedError whenever the size is valid and the sample buffer
\* could be had, and leaves the input handle as it was: no draw and no
\* generator creation is issued, every context (its generator state
\* included) and every handle (its reference count included) is as before,
\* and so are the input value and the output storage.
C4_NonDestructiveReuseFails ==
  (last.ran /\ ~last.op.destructive /\ last.i_before # 0)
    => /\ last.err # "ok"
       /\ (last.shape_ok /\ last.err # "MemoryError")
            => last.err = "NotImplementedError: non-destructive CURAND generation"
       /\ Draws = {}
       /\ NativeCalls("curandCreateGenerator") = {}
       /\ contexts = last.ctx_before
       /\ handles = last.hnd_before
       /\ i_generator = last.i_before
       /\ o_generator = last.o_before

C4_Witness ==
  /\ last.ran /\ ~last.op.destructive /\ last.i_before # 0
  /\ last.err = "NotImplementedError: non-destructive CURAND generation"
  /\ contexts[handles[last.i_before].gen].drawn > 0

\* C5: in a session whose executor feeds the generator output back as the
\* next input, once the rewrite has been applied an execution with a valid
\* shape and no native failure completes; while no execution has failed, the
\* k-th sample is the block of the Op's seed's sequence that follows the
\* blocks of the k-1 samples before it (so it differs from the first), and
\* the session has created exactly one context.  In a session without the
\* wiring the input stays the placeholder, and every completed execution
\* creates a context from the Op's seed and returns that seed's first draw.
C5_WiredSessionAdvancesOneContext ==
  /\ (wired /\ rewritten /\ last.ran /\ last.nominal) => last.err = "ok"
  /\ (wired /\ session_clean)
       => /\ \A k \in DOMAIN samples :
               /\ samples[k].seed = op.seed
               /\ samples[k].from = ElementsBefore(samples, k)
               /\ k > 1 => samples[k] # samples[1]
          /\ samples # <<>> => Len(contexts) = session_ctx + 1
  /\ ~wired
       => /\ i_generator = 0
          /\ (last.ran /\ last.err = "ok")
               => /\ Len(contexts) = Len(last.ctx_before) + 1
                  /\ o_sample.data.seed = op.seed
                  /\ o_sample.data.from = 0

C5_Witness ==
  /\ wired /\ rewritten /\ session_clean /\ Len(samples) >= 2
  /\ samples[2].from > 0

\* C12: an execution whose size argument is not of rank 1, or not of the
\* length of the Op's declared rank, or not of type int32, fails with the
\* error of the first of these checks that it breaks, before any native
\* call: no sample buffer is allocated, no context is created or seeded, no
\* draw is issued, and the output handle and the sample storage are as they
\* were.
C12_InvalidShapeFailsBeforeNativeCalls ==
  (last.ran /\ ~last.shape_ok)
    => /\ last.err =
            (IF last.size.nd # 1 THEN "ValueError: size must be vector"
             ELSE IF Len(last.size.data)
                       # Len(last.op.output_type.broadcastable)
             THEN "ValueError: size must have length"
             ELSE "ValueError: size must be int32")
       /\ last.calls = <<>>
       /\ Len(contexts) = Len(last.ctx_before)
       /\ \A c \in DOMAIN contexts :
            /\ contexts[c].seed = last.ctx_before[c].seed
            /\ contexts[c].drawn = last.ctx_before[c].drawn
       /\ Len(handles) = Len(last.hnd_before)
       /\ o_generator = last.o_before
       /\ i_generator = last.i_before
       /\ o_sample = last.s_before

C12_Witness ==
  /\ last.ran /\ ~last.shape_ok
  /\ last.size.nd = 1 /\ last.size.dtype = "int32"
  /\ Len(last.size.data) = 1
  /\ Len(last.op.output_type.broadcastable) = 2
  /\ last.o_before # 0

\* The live CObjects that wrap the context c.
WrappersOf(c) ==
  {h \in DOMAIN handles : ~handles[h].freed /\ handles[h].gen = c}

\* C13: in every reachable state each live native context is wrapped by
\* exactly one live handle object, each live handle object wraps a live
\* native context, and no two distinct live handles share a context.
C13_OneLiveHandlePerLiveContext ==
  /\ \A c \in Live(contexts) : Cardinality(WrappersOf(c)) = 1
  /\ \A h \in DOMAIN handles :
       ~handles[h].freed => handles[h].gen \in Live(contexts)
  /\ \A g, h \in DOMAIN handles :
       (g # h /\ ~handles[g].freed /\ ~handles[h].freed)
         => handles[g].gen # handles[h].gen

\* C16: an execution with a valid size asks for a fresh sample buffer
\* exactly when the storage holds none, or holds something that is not a
\* device array, or an array of a rank other than the declared rank, or an
\* array one of whose dimensions differs from the requested one; in every
\* other case no buffer is allocated and, when the execution completes, the
\* buffer that was there holds the new sample, its dimensions as before.
C16_BufferAllocatedOnlyOnMismatch ==
  (last.ran /\ last.shape_ok)
    => LET ndim == Len(last.op.output_type.broadcastable)
           b == last.s_before
           allocs == NativeCalls("CudaNdarray_NewDims")
       IN /\ allocs # {}
               <=> \/ b.kind = "null"
                   \/ b.kind # "cuda"
                   \/ Len(b.dims) # ndim
                   \/ \E i \in 1..ndim : b.dims[i] # last.size.data[i]
          /\ Cardinality(allocs) <= 1
          /\ (allocs = {} /\ last.err = "ok")
               => /\ o_sample.kind = "cuda"
                  /\ o_sample.dims = b.dims
          /\ last.err = "ok" => o_sample.dims = last.size.data

C16_Witness ==
  /\ last.ran /\ last.shape_ok /\ last.err = "ok"
  /\ NativeCalls("CudaNdarray_NewDims") = {}
  /\ last.s_before.kind = "cuda"
  /\ Len(last.s_before.dims) = 2
  /\ last.s_before.data.n > 0

C16_WitnessRealloc ==
  /\ last.ran /\ last.shape_ok /\ last.err = "ok"
  /\ NativeCalls("CudaNdarray_NewDims") # {}
  /\ last.s_before.kind = "cuda"
  /\ Len(last.s_before.dims) = Len(last.size.data)

(***************************************************************************)
(* CURAND_RandomStreams.                                                   *)
(***************************************************************************)
\* CURAND_RandomStreams.__init__; list is the new list made for state_updates.
CURAND_RandomStreams(seed, list) ==
  [start_seed |-> seed, cur_seed |-> seed, has_lost_states |-> FALSE,
   state_updates |-> list]

\* A variant of next_seed that returns the counter after the increment.
next_seed_PreIncrement(self) ==
  [self |-> [self EXCEPT !.cur_seed = @ + 1], rval |-> self.cur_seed + 1]

\* A variant of next_seed that forgets to advance the counter.
next_seed_NoAdvance(self) ==
  [self |-> self, rval |-> self.cur_seed]

\* next_seed: the stream after the call and the value returned.
next_seed(self) ==
  LET after == [self EXCEPT !.cur_seed = @ + 1]
  IN [self |-> after, rval |-> after.cur_seed - 1]

\* A variant of updates that hands out the stream's own list.
updates_Alias(self, L) ==
  [lists |-> L, rval |-> self.state_updates]

\* updates: list(self.state_updates) makes a new list object with the same
\* items; L is the heap of list objects.
updates(self, L) ==
  [lists |-> Append(L, L[self.state_updates]), rval |-> Len(L) + 1]

\* A variant of __getstate__ that edits the object's own __dict__ instead of a
\* copy of it.
getstate_NoCopy(self, L) ==
  LET saved == [self EXCEPT !.state_updates = Len(L) + 1,
                            !.has_lost_states = TRUE]
  IN [self |-> saved, lists |-> Append(L, <<>>), rval |-> saved]

\* A variant of __getstate__ that leaves state_updates in the saved state.
getstate_KeepUpdates(self, L) ==
  [self |-> self, lists |-> Append(L, L[self.state_updates]),
   rval |-> [self EXCEPT !.state_updates = Len(L) + 1,
                         !.has_lost_states = TRUE]]

\* __getstate__: a copy of the object's __dict__ with a new empty list for
\* state_updates and _has_lost_states set; self is left as it was.
getstate(self, L) ==
  [self |-> self, lists |-> Append(L, <<>>),
   rval |-> [self EXCEPT !.state_updates = Len(L) + 1,
                         !.has_lost_states = TRUE]]

\* The size arguments tried: tuples of ints (good, or holding something
\* else), symbolic vectors of known or unknown (0) length, a symbolic matrix,
\* and a value that is neither (None, a list).
SizeArgs ==
  [form : {"tuple"}, elems_ok : {TRUE}, vndim : {1}, length : {1}]
    \cup [form : {"tuple"}, elems_ok : {FALSE}, vndim : {1}, length : {1}]
    \cup [form : {"variable"}, elems_ok : {TRUE}, vndim : {1},
          length : {0, 1}]
    \cup [form : {"variable"}, elems_ok : {TRUE}, vndim : {2}, length : {0}]
    \cup [form : {"other"}, elems_ok : {TRUE}, vndim : {0}, length : {0}]

\* The ndim arguments tried (0 stands for None) and the dtype arguments.
NdimArgs == {0, 1}
DtypeArgs == {"float32", "float64"}

\* The broadcastable patterns of low/high (avg/std) tried: scalars and a
\* matrix.
ParamPatterns == {<<>>, <<FALSE, FALSE>>}

\* The calls of uniform() and normal() tried: every size with the default
\* ndim and dtype and scalar parameters; and, for a tuple size and for a
\* symbolic vector of unknown length, every other choice of the rest.
DrawArgs ==
  [size : SizeArgs, pattern : {<<>>}, ndim : {0}, dtype : {"float32"}]
    \cup [size : {sz \in SizeArgs : sz.elems_ok /\ sz.vndim = 1 /\ sz.length = 1
                                       /\ sz.form = "tuple"},
          pattern : ParamPatterns, ndim : NdimArgs, dtype : DtypeArgs]
    \cup [size : {sz \in SizeArgs : sz.form = "variable" /\ sz.vndim = 1
                                       /\ sz.length = 0},
          pattern : ParamPatterns, ndim : NdimArgs, dtype : DtypeArgs]

\* The asserts on size at the head of uniform() and normal().
size_assert(size) ==
  IF size.form = "tuple" THEN size.elems_ok
  ELSE size.form = "variable" /\ size.vndim = 1

\* CURAND_Base.new_auto_update: the Apply node built and the update pair; nv
\* is the number of Variables that exist.  get_vector_length raises when the
\* length of the size vector is not known.
new_auto_update(cls, generator, ndim, dtype, size, seed, nv) ==
  IF ndim = 0 /\ size.length = 0
  THEN [err |-> "ValueError", nvars |-> nv, node |-> <<>>, update |-> <<>>]
  ELSE LET nd == IF ndim = 0 THEN size.length ELSE ndim
           self == CURAND_Base(cls, CudaNdarrayType(Falses(nd)), seed, FALSE)
           o_gen == nv + 1
           sample == nv + 2
       IN [err |-> "ok", nvars |-> nv + 2,
           node |-> <<[apply |-> make_node(self, <<generator, "size">>),
                       generator |-> generator, o_gen |-> o_gen,
                       sample |-> sample]>>,
           update |-> <<generator, o_gen>>]

\* The broadcastable pattern of u * a + b for a raw draw of pattern ub and
\* parameters of pattern pb: the shorter pattern is padded on the left, and a
\* dimension is broadcastable when it is so in both.
scaled_broadcastable(ub, pb) ==
  LET n == IF Len(ub) > Len(pb) THEN Len(ub) ELSE Len(pb)
      pad(b) == [i \in 1..n |-> IF i <= n - Len(b) THEN TRUE
                               ELSE b[i - (n - Len(b))]]
  IN [i \in 1..n |-> pad(ub)[i] /\ pad(pb)[i]]

ExecIdle ==
  /\ op = NoExec.op
  /\ contexts = <<>>
  /\ handles = <<>>
  /\ i_generator = 0
  /\ o_generator = 0
  /\ o_sample = NullSample
  /\ wired = FALSE
  /\ rewritten = FALSE
  /\ nexec = 0
  /\ samples = <<>>
  /\ session_ctx = 0
  /\ session_clean = TRUE
  /\ last = NoExec

InitStream ==
  /\ \E seed \in Seeds : streams = <<CURAND_RandomStreams(seed, 1)>>
  /\ lists = << <<>> >>
  /\ built = <<>>
  /\ nvars = 0
  /\ seedlog = << <<>> >>
  /\ base = <<streams[1].cur_seed>>
  /\ snap = 0
  /\ snap_orig = <<>>
  /\ snap_touched = FALSE
  /\ slast = NoCall
  /\ ExecIdle
  /\ GraphIdle

Called(call, i, err, rval) ==
  [call |-> call, stream |-> i, err |-> err, rval |-> rval,
   dtype |-> "none", before |-> streams[i], before_updates |-> lists[streams[i].state_updates]]

RECURSIVE TotalLen(_)
TotalLen(ss) == IF ss = <<>> THEN 0 ELSE Len(Head(ss)) + TotalLen(Tail(ss))

\* The model stops after MaxDraws calls of next_seed() over all the streams.
CanSeed == TotalLen(seedlog) < MaxDraws

\* A variant of shared that hands out one placeholder for every draw.
shared_Reuse(nv) == 1

\* generator = theano.shared(False): a new generic Variable holding the
\* placeholder; nv is the number of Variables that exist.
shared(nv) == nv + 1

\* The body shared by uniform() and normal(): cls is the Op class, pattern
\* the broadcastable pattern of the scaling parameters.
StreamDraw(call, cls, i, size, pattern, ndim, dtype) ==
  /\ CanSeed
  /\ IF ~size_assert(size)
     THEN /\ slast' = [Called(call, i, "AssertionError", 0)
                         EXCEPT !.dtype = dtype]
          /\ UNCHANGED <<streams, lists, built, nvars, seedlog>>
     ELSE LET generator == shared(nvars)
              ns == next_seed(streams[i])
              u == new_auto_update(cls, generator, ndim, dtype, size,
                                   ns.rval, nvars + 1)
          IN /\ streams' = [streams EXCEPT ![i] = ns.self]
             /\ seedlog' = [seedlog EXCEPT ![i] = Append(@, ns.rval)]
             /\ nvars' = u.nvars
             /\ IF u.err # "ok"
                THEN /\ slast' = [Called(call, i, u.err, 0)
                                    EXCEPT !.dtype = dtype]
                     /\ UNCHANGED <<lists, built>>
                ELSE /\ lists' = [lists EXCEPT ![ns.self.state_updates] =
                                    Append(@, u.update)]
                     /\ built' = Append(built,
                                        [stream |-> i, node |-> u.node[1]])
                     /\ slast' =
                          [Called(call, i,
                                  IF scaled_broadcastable(
                                       u.node[1].apply.op.output_type.broadcastable,
                                       pattern)
                                     # u.node[1].apply.op.output_type.broadcastable
                                  THEN "NotImplementedError" ELSE "ok",
                                  u.node[1].sample)
                             EXCEPT !.dtype = dtype]
  /\ UNCHANGED <<base, snap, snap_orig, snap_touched>>
  /\ UNCHANGED <<execVars, graphVars>>

Uniform(i, size, pattern, ndim, dtype) ==
  StreamDraw("uniform", "CURAND_Uniform", i, size, pattern, ndim, dtype)

Normal(i, size, pattern, ndim, dtype) ==
  StreamDraw("normal", "CURAND_Normal", i, size, pattern, ndim, dtype)

\* A direct call of next_seed().
NextSeed(i) ==
  /\ CanSeed
  /\ LET ns == next_seed(streams[i])
     IN /\ streams' = [streams EXCEPT ![i] = ns.self]
        /\ seedlog' = [seedlog EXCEPT ![i] = Append(@, ns.rval)]
        /\ slast' = Called("next_seed", i, "ok", ns.rval)
  /\ UNCHANGED <<lists, built, nvars, base, snap, snap_orig, snap_touched>>
  /\ UNCHANGED <<execVars, graphVars>>

\* A call of updates(); the client keeps the list returned.  The model
\* follows one such list.
Updates(i) ==
  /\ snap = 0
  /\ LET r == updates(streams[i], lists)
     IN /\ lists' = r.lists
        /\ snap' = r.rval
        /\ snap_orig' = r.lists[r.rval]
        /\ slast' = Called("updates", i, "ok", r.rval)
  /\ snap_touched' = FALSE
  /\ UNCHANGED <<streams, built, nvars, seedlog, base>>
  /\ UNCHANGED <<execVars, graphVars>>

\* The client changes the list it was given: it adds an item, removes the
\* last one, or reverses the list.  The model follows one such change.
ClientAppend ==
  /\ snap # 0 /\ ~snap_touched
  /\ lists' = [lists EXCEPT ![snap] = Append(@, <<0, 0>>)]
  /\ snap_touched' = TRUE
  /\ slast' = NoCall
  /\ UNCHANGED <<streams, built, nvars, seedlog, base, snap, snap_orig>>
  /\ UNCHANGED <<execVars, graphVars>>

ClientRemove ==
  /\ snap # 0 /\ ~snap_touched
  /\ lists[snap] # <<>>
  /\ lists' = [lists EXCEPT ![snap] = SubSeq(@, 1, Len(@) - 1)]
  /\ snap_touched' = TRUE
  /\ slast' = NoCall
  /\ UNCHANGED <<streams, built, nvars, seedlog, base, snap, snap_orig>>
  /\ UNCHANGED <<execVars, graphVars>>

ClientReverse ==
  /\ snap # 0 /\ ~snap_touched
  /\ Len(lists[snap]) >= 2
  /\ lists' = [lists EXCEPT ![snap] =
                 [k \in 1..Len(@) |-> @[Len(@) + 1 - k]]]
  /\ snap_touched' = TRUE
  /\ slast' = NoCall
  /\ UNCHANGED <<streams, built, nvars, seedlog, base, snap, snap_orig>>
  /\ UNCHANGED <<execVars, graphVars>>

\* The stream is saved (__getstate__) and a copy restored from the saved
\* state: a new object whose __dict__ is the saved one.  The model follows
\* the constructed stream and one restored copy of it.
SaveRestore(i) ==
  /\ Len(streams) = 1
  /\ LET g == getstate(streams[i], lists)
     IN /\ streams' = Append([streams EXCEPT ![i] = g.self], g.rval)
        /\ lists' = g.lists
        /\ base' = Append(base, g.rval.cur_seed)
  /\ seedlog' = Append(seedlog, <<>>)
  /\ slast' = Called("restore", i, "ok", Len(streams) + 1)
  /\ UNCHANGED <<built, nvars, snap, snap_orig, snap_touched>>
  /\ UNCHANGED <<execVars, graphVars>>

NextStream ==
  \/ \E i \in DOMAIN streams, a \in DrawArgs :
       Uniform(i, a.size, a.pattern, a.ndim, a.dtype)
  \/ \E i \in DOMAIN streams, a \in DrawArgs :
       Normal(i, a.size, a.pattern, a.ndim, a.dtype)
  \/ \E i \in DOMAIN streams : NextSeed(i)
  \/ \E i \in DOMAIN streams : Updates(i)
  \/ ClientAppend
  \/ ClientRemove
  \/ ClientReverse
  \/ \E i \in DOMAIN streams : SaveRestore(i)

SpecStream == InitStream /\ [][NextStream]_vars

(***************************************************************************)
(* Properties of streams (checked under SpecStream).                       *)
(***************************************************************************)
\* The update pairs of the nodes that stream i has built, in build order.
RECURSIVE PairsBuiltBy(_, _)
PairsBuiltBy(i, nodes) ==
  IF nodes = <<>> THEN <<>>
  ELSE LET rest == PairsBuiltBy(i, SubSeq(nodes, 1, Len(nodes) - 1))
           b == nodes[Len(nodes)]
       IN IF b.stream = i THEN Append(rest, <<b.node.generator, b.node.o_gen>>)
          ELSE rest

\* C6: the n-th call of next_seed() on the stream constructed with seed s
\* returns s + n - 1, whatever calls are interleaved; on every stream
\* (a restored copy counts from its counter when restored) the values
\* returned increase by one from call to call, so none is returned twice.
C6_NextSeedCountsFromSeed ==
  /\ \A n \in DOMAIN seedlog[1] : seedlog[1][n] = streams[1].start_seed + n - 1
  /\ \A i \in DOMAIN streams :
       /\ \A n \in DOMAIN seedlog[i] : seedlog[i][n] = base[i] + n - 1
       /\ \A m, n \in DOMAIN seedlog[i] :
            m < n => seedlog[i][m] < seedlog[i][n]

C6_Witness ==
  /\ Len(seedlog[1]) >= 2
  /\ slast.call = "next_seed" /\ slast.stream = 1
  /\ built # <<>>

\* C7: the Ops built by one stream carry pairwise distinct seeds, after any
\* calls of uniform(), normal() and next_seed(), failed calls included.
C7_BuiltOpsHaveDistinctSeeds ==
  \A a, b \in DOMAIN built :
    (a # b /\ built[a].stream = built[b].stream)
      => built[a].node.apply.op.seed # built[b].node.apply.op.seed

C7_Witness ==
  /\ Len(built) >= 2
  /\ built[1].stream = built[2].stream
  /\ built[1].node.apply.op.cls # built[2].node.apply.op.cls
  /\ slast.err = "NotImplementedError"

\* C8: updates() returns a new list holding the pairs the stream has
\* recorded, which are the pairs of the nodes it has built, in build order;
\* whatever the client does to the returned list the stream's pairs stay
\* those, and the returned list changes only by the client's hand.
C8_UpdatesReturnsSnapshot ==
  /\ slast.call = "updates"
       => /\ snap = slast.rval
          /\ lists[snap] = lists[streams[slast.stream].state_updates]
  /\ \A i \in DOMAIN streams :
       /\ lists[streams[i].state_updates] = PairsBuiltBy(i, built)
       /\ snap # streams[i].state_updates
  /\ (snap # 0 /\ ~snap_touched) => lists[snap] = snap_orig

C8_Witness ==
  /\ snap # 0 /\ snap_touched /\ snap_orig # <<>>
  /\ lists[snap] # snap_orig
  /\ \E i \in DOMAIN streams :
       Len(lists[streams[i].state_updates]) > Len(snap_orig)

\* C9: saving a stream and restoring the saved state gives a copy whose
\* list of update pairs is a list of its own, empty, and whose
\* _has_lost_states is set, whatever the saved stream had recorded.
C9_RestoredCopyHasLostUpdates ==
  slast.call = "restore"
    => /\ streams[slast.rval].has_lost_states
       /\ lists[streams[slast.rval].state_updates] = <<>>
       /\ streams[slast.rval].state_updates
            # streams[slast.stream].state_updates

C9_Witness ==
  /\ slast.call = "restore"
  /\ Len(slast.before_updates) >= 2

\* C14: a request for an output element type other than float32 fails when
\* the Op is constructed: CURAND_Base.__init__ refuses every such output
\* type, and a call of uniform() or normal() that passes such a dtype fails
\* no later than the construction of its Op (it returns no sample and does
\* not get as far as the broadcast check).
C14_OtherDtypeFailsAtConstruction ==
  /\ \A cls \in Classes, sd \in Seeds, d \in BOOLEAN :
       CURAND_Base(cls, [dtype |-> "float64", broadcastable |-> <<FALSE>>],
                   sd, d) = "AssertionError"
  /\ (slast.call \in {"uniform", "normal"} /\ slast.dtype # "float32")
       => /\ slast.err \notin {"ok", "NotImplementedError"}
          /\ slast.rval = 0

\* C17: a call of uniform() or normal() that fails (at the asserts on size,
\* in the factory, or at the broadcast check after the scaling) leaves the
\* stream as it was before the call: the seed counter is not advanced and no
\* update pair is recorded.
C17_FailedDrawLeavesStreamUnchanged ==
  (slast.call \in {"uniform", "normal"} /\ slast.err # "ok")
    => /\ streams[slast.stream] = slast.before
       /\ streams[slast.stream].cur_seed = slast.before.cur_seed
       /\ lists[streams[slast.stream].state_updates] = slast.before_updates

\* C18: saving a stream leaves the stream that is saved as it was: its
\* recorded update pairs, its _has_lost_states flag (false on a stream that
\* was constructed, not restored) and its seeds are unchanged.  The restored
\* copy has the original's starting seed and its seed counter at the time of
\* the save, so its next next_seed() returns what the original's would.
C18_SaveLeavesOriginalAndKeepsSeeds ==
  /\ ~streams[1].has_lost_states
  /\ slast.call = "restore"
       => LET o == streams[slast.stream]
              r == streams[slast.rval]
          IN /\ o = slast.before
             /\ lists[o.state_updates] = slast.before_updates
             /\ o.has_lost_states = slast.before.has_lost_states
             /\ r.start_seed = slast.before.start_seed
             /\ r.cur_seed = slast.before.cur_seed
             /\ next_seed(r).rval = next_seed(slast.before).rval

C18_Witness ==
  /\ slast.call = "restore"
  /\ slast.before_updates # <<>>
  /\ slast.before.cur_seed > slast.before.start_seed
  /\ lists[streams[slast.stream].state_updates] # <<>>

\* The nodes built so far that take the Variable g as their generator input.
ConsumersOf(g) ==
  {k \in DOMAIN built : built[k].node.apply.inputs[1] = g}

\* C19: every call of uniform() or normal() makes a placeholder of its own:
\* the old values of the pairs a stream has recorded are pairwise distinct,
\* each is the generator input of exactly one Op node, and the pair's new
\* value is the generator output of that node; no generator Variable is the
\* input of two nodes, whichever streams built them.
C19_EachPairHasItsOwnGenerator ==
  /\ \A i \in DOMAIN streams :
       LET L == lists[streams[i].state_updates]
       IN /\ \A a, b \in DOMAIN L : a # b => L[a][1] # L[b][1]
          /\ \A a \in DOMAIN L :
               /\ Cardinality(ConsumersOf(L[a][1])) = 1
               /\ \A k \in ConsumersOf(L[a][1]) :
                    /\ built[k].node.o_gen = L[a][2]
                    /\ built[k].node.generator = L[a][1]
                    /\ IsCurandOp(built[k].node.apply.op)
  /\ \A j, k \in DOMAIN built :
       j # k => /\ built[j].node.generator # built[k].node.generator
                /\ built[j].node.o_gen # built[k].node.o_gen
                /\ built[j].node.generator # built[k].node.o_gen

C19_Witness ==
  /\ Len(built) >= 2
  /\ built[1].stream # built[2].stream
  /\ \A i \in DOMAIN streams : lists[streams[i].state_updates] # <<>>

(***************************************************************************)
(* SpecRewrite: the pass registered as 'CURAND_destructive', an in-to-out  *)
(* traversal that applies local_destructive to every node once and puts    *)
(* the outputs it returns in the place of the node's.                      *)
(***************************************************************************)
\* An Op that is not a CURAND_Base, with or without an attribute named
\* destructive that is false.
OtherOps ==
  {[cls |-> "Other", destructive |-> d, seed |-> 0,
    output_type |-> CudaNdarrayType(Falses(1))] : d \in BOOLEAN}

CurandOps ==
  {CURAND_Base(cls, CudaNdarrayType(Falses(nd)), sd, d) :
     cls \in Classes, nd \in Ranks, sd \in Seeds, d \in BOOLEAN}

GraphNodes ==
  {make_node(o, <<"generator", "size">>) : o \in CurandOps}
    \cup {[op |-> o, inputs |-> <<"x">>, outputs |-> <<o.output_type>>] :
            o \in OtherOps}

InitRewrite ==
  /\ graph \in UNION {[1..n -> GraphNodes] : n \in 1..MaxNodes}
  /\ orig = graph
  /\ pos = 1
  /\ passes = 1
  /\ pass_start = graph
  /\ cmp = NoCmp
  /\ ExecIdle
  /\ StreamIdle

PassDone == pos > Len(graph)

\* The pass visits the next node.
VisitNode ==
  /\ ~PassDone
  /\ LET new == local_destructive(graph[pos])
     IN graph' = IF new = <<>> THEN graph ELSE [graph EXCEPT ![pos] = new[1]]
  /\ pos' = pos + 1
  /\ cmp' = NoCmp
  /\ UNCHANGED <<orig, passes, pass_start>>
  /\ UNCHANGED <<execVars, streamVars>>

\* The pass is run again on the graph it produced.
RunAgain ==
  /\ PassDone
  /\ passes < MaxPasses
  /\ pos' = 1
  /\ passes' = passes + 1
  /\ pass_start' = graph
  /\ cmp' = NoCmp
  /\ UNCHANGED <<graph, orig>>
  /\ UNCHANGED <<execVars, streamVars>>

\* The Ops of node k: the one the optimizer was handed and the one in the
\* graph now.
OpsAt(k) == {orig[k].op, graph[k].op}

\* When the first pass is done two Ops of the graph are compared and hashed
\* (as the graph's merging and caching do): self is a CURAND_Base, an Op of
\* the first node, and other any Op, of node k.
Compare(k) ==
  /\ PassDone /\ passes = 1
  /\ \E a \in OpsAt(1), b \in OpsAt(k) :
       /\ IsCurandOp(a)
       /\ cmp' = [done |-> TRUE, self |-> a, other |-> b,
                  eq |-> __eq__(a, b),
                  hash_self |-> __hash__(a), hash_other |-> __hash__(b)]
  /\ UNCHANGED <<graph, orig, pos, passes, pass_start>>
  /\ UNCHANGED <<execVars, streamVars>>

NextRewrite ==
  \/ VisitNode
  \/ RunAgain
  \/ \E k \in DOMAIN graph : Compare(k)

SpecRewrite == InitRewrite /\ [][NextRewrite]_vars

(***************************************************************************)
(* Properties of the rewrite (checked under SpecRewrite).                  *)
(***************************************************************************)
\* The nodes the first pass has visited.
Visited == IF passes > 1 THEN DOMAIN graph ELSE 1..(pos - 1)

\* C10: the pass keeps the number of nodes; a visited node whose Op was a
\* CURAND_Base with destructive false has become a node of the Op of the
\* same class, output type and seed with destructive true, on the same
\* inputs in the same order; every other node is as it was; and when the
\* pass is done no CURAND_Base node with destructive false is left.
C10_RewriteMakesEveryDrawDestructive ==
  /\ Len(graph) = Len(orig)
  /\ \A k \in DOMAIN graph :
       IF k \in Visited /\ orig[k].op.cls \in Classes /\ ~orig[k].op.destructive
       THEN /\ graph[k].op.cls = orig[k].op.cls
            /\ graph[k].op.output_type = orig[k].op.output_type
            /\ graph[k].op.seed = orig[k].op.seed
            /\ graph[k].op.destructive
            /\ graph[k].inputs = orig[k].inputs
            /\ graph[k].outputs = orig[k].outputs
       ELSE graph[k] = orig[k]
  /\ PassDone
       => \A k \in DOMAIN graph :
            graph[k].op.cls \in Classes => graph[k].op.destructive

C10_Witness ==
  /\ PassDone /\ passes = 1 /\ Len(graph) = 2
  /\ orig[1].op.cls = "CURAND_Normal" /\ ~orig[1].op.destructive
  /\ orig[1].op.seed # 0 /\ Len(orig[1].op.output_type.broadcastable) = 2
  /\ graph[1].op.destructive
  /\ orig[2].op.cls = "Other" /\ ~orig[2].op.destructive

\* C11: run a second time, on the graph the first run produced, the pass
\* changes nothing: the graph stays as it was when the second run started,
\* the rule declines every node of the rewritten graph, and as_destructive of
\* a destructive Op is an Op equal to it.
C11_SecondPassChangesNothing ==
  /\ passes > 1 => graph = pass_start
  /\ (passes > 1 \/ PassDone)
       => \A k \in DOMAIN graph : local_destructive(graph[k]) = <<>>
  /\ \A k \in DOMAIN graph :
       (IsCurandOp(graph[k].op) /\ graph[k].op.destructive)
         => __eq__(as_destructive(graph[k].op), graph[k].op)

C11_Witness ==
  /\ passes = 2 /\ PassDone
  /\ graph # orig
  /\ \E k \in DOMAIN graph : IsCurandOp(orig[k].op) /\ orig[k].op.destructive
  /\ \E k \in DOMAIN graph : IsCurandOp(orig[k].op) /\ ~orig[k].op.destructive

\* C15: two sampling Ops compare equal exactly when they are of the same
\* class (CURAND_Uniform or CURAND_Normal) and have the same destructive
\* flag, the same output type and the same seed; Ops that compare equal have
\* equal hashes; an Op whose destructive flag differs from another's is not
\* equal to it, its own destructive version included.
C15_EqualIffSameClassAndConfig ==
  cmp.done
    => /\ cmp.eq <=> /\ cmp.self.cls = cmp.other.cls
                     /\ cmp.self.destructive = cmp.other.destructive
                     /\ cmp.self.output_type = cmp.other.output_type
                     /\ cmp.self.seed = cmp.other.seed
       /\ cmp.eq => cmp.hash_self = cmp.hash_other
       /\ (cmp.self.destructive # cmp.other.destructive) => ~cmp.eq
       /\ ~cmp.self.destructive
            => ~__eq__(cmp.self, as_destructive(cmp.self))

C15_Witness ==
  /\ cmp.done /\ ~cmp.eq
  /\ ~cmp.self.destructive /\ cmp.other = as_destructive(cmp.self)
  /\ cmp.hash_self # cmp.hash_other

====
